---------------------------- MODULE Spec2Model ----------------------------
(***************************************************************************)
(* A model of the DirectAdmin provider for libdns: the four record         *)
(* operations of provider.go, the per-record request builders of client.go *)
(* and the record translation of models.go, run by goroutines that share   *)
(* one Provider and talk to one DirectAdmin server.                        *)
(*                                                                         *)
(* Strings are sequences of characters (one-character TLA+ strings; the    *)
(* fixed pieces of a format such as "name=" are single elements).  A       *)
(* time.Duration is kept in whole seconds.                                 *)
(***************************************************************************)
EXTENDS Integers, Sequences, FiniteSets, TLC

(***************************************************************************)
(* Go's strings and strconv functions, as the code uses them.              *)
(***************************************************************************)
HasSuffix(s, suf) ==
    /\ Len(suf) <= Len(s)
    /\ SubSeq(s, Len(s) - Len(suf) + 1, Len(s)) = suf

HasPrefix(s, pre) ==
    /\ Len(pre) <= Len(s)
    /\ SubSeq(s, 1, Len(pre)) = pre

TrimSuffix(s, suf) ==
    IF HasSuffix(s, suf) THEN SubSeq(s, 1, Len(s) - Len(suf)) ELSE s

TrimPrefix(s, pre) ==
    IF HasPrefix(s, pre) THEN SubSeq(s, Len(pre) + 1, Len(s)) ELSE s

\* strings.Split(s, sep) for a one-character separator: the pieces between
\* the separators, empty pieces included.
RECURSIVE SplitFrom(_, _, _)
SplitFrom(s, sep, cur) ==
    IF s = << >> THEN << cur >>
    ELSE IF Head(s) = sep THEN << cur >> \o SplitFrom(Tail(s), sep, << >>)
    ELSE SplitFrom(Tail(s), sep, Append(cur, Head(s)))

Split(s, sep) == SplitFrom(s, sep, << >>)

RECURSIVE Join(_, _)
Join(parts, sep) ==
    IF parts = << >> THEN << >>
    ELSE IF Len(parts) = 1 THEN parts[1]
    ELSE parts[1] \o << sep >> \o Join(Tail(parts), sep)

Digits == << "0", "1", "2", "3", "4", "5", "6", "7", "8", "9" >>

IsDigit(c) == \E d \in 1..10 : Digits[d] = c

DigitVal(c) == (CHOOSE d \in 1..10 : Digits[d] = c) - 1

RECURSIVE DigitsVal(_, _)
DigitsVal(s, acc) ==
    IF s = << >> THEN acc ELSE DigitsVal(Tail(s), 10 * acc + DigitVal(Head(s)))

\* strconv.Atoi: an optional sign, then one or more decimal digits.
Atoi(s) ==
    LET signed == s # << >> /\ Head(s) \in {"+", "-"}
        body   == IF signed THEN Tail(s) ELSE s
    IN  IF body = << >> \/ \E k \in 1..Len(body) : ~IsDigit(body[k])
        THEN [ok |-> FALSE, val |-> 0]
        ELSE [ok |-> TRUE,
              val |-> IF signed /\ Head(s) = "-"
                      THEN 0 - DigitsVal(body, 0) ELSE DigitsVal(body, 0)]

RECURSIVE NatDigits(_)
NatDigits(n) ==
    IF n < 10 THEN << Digits[n + 1] >>
    ELSE Append(NatDigits(n \div 10), Digits[(n % 10) + 1])

\* strconv.Itoa
Itoa(n) == IF n < 0 THEN << "-" >> \o NatDigits(0 - n) ELSE NatDigits(n)

\* strings.ToLower on a record type
ToLower(t) ==
    CASE t = "A"   -> "a"
      [] t = "TXT" -> "txt"
      [] t = "MX"  -> "mx"
      [] t = "SRV" -> "srv"
      [] t = "NS"  -> "ns"
      [] t = "URI" -> "uri"
      [] OTHER     -> t

Uint16(n) == n % 65536

(***************************************************************************)
(* libdns records.  A libdns.Record is an interface; the values the code   *)
(* builds are *libdns.RR, *libdns.MX and *libdns.SRV, and a nil interface. *)
(***************************************************************************)
NilRecord == [kind |-> "nil"]

MkRR(name, type, data, ttl) ==
    [kind |-> "RR", Name |-> name, Type |-> type, Data |-> data, TTL |-> ttl]

\* Record.RR(): the generic view of a record.  MX and SRV render their
\* fields into Data as libdns does ("<pref> <target>",
\* "<prio> <weight> <port> <target>").
RR(rec) ==
    CASE rec.kind = "RR" -> rec
      [] rec.kind = "MX" ->
            MkRR(rec.Name, "MX",
                 Itoa(rec.Preference) \o << " " >> \o rec.Target, rec.TTL)
      [] rec.kind = "SRV" ->
            MkRR(<< "_" >> \o rec.Service \o << ".", "_" >> \o rec.Transport
                     \o << "." >> \o rec.Name,
                 "SRV",
                 Itoa(rec.Priority) \o << " " >> \o Itoa(rec.Weight) \o << " " >>
                     \o Itoa(rec.Port) \o << " " >> \o rec.Target,
                 rec.TTL)

(***************************************************************************)
(* Errors.  NoErr is Go's nil error.                                       *)
(***************************************************************************)
NoErr == [kind |-> "nil"]

ErrUnsupported == [kind |-> "unsupported record type"]

\* libdnsRecord as it would be without the cases for MX and SRV: every
\* supported type becomes a generic record.
libdnsRecordGenericOnly(r, zone) ==
    LET ttlParse == Atoi(r.TTL)
        ttl == IF Len(r.TTL) > 0 THEN ttlParse.val ELSE 0
    IN  IF Len(r.TTL) > 0 /\ ~ttlParse.ok
        THEN << NilRecord, [kind |-> "failed to parse TTL", name |-> r.Name] >>
        ELSE IF r.Type = "URI" THEN << NilRecord, ErrUnsupported >>
        ELSE << MkRR(r.Name, r.Type, r.Value, ttl), NoErr >>

\* models.go: daRecord.libdnsRecord(zone).  The result is <<record, err>>.
libdnsRecord(r, zone) ==
    LET ttlParse == Atoi(r.TTL)
        ttl == IF Len(r.TTL) > 0 THEN ttlParse.val ELSE 0
        rr  == MkRR(r.Name, r.Type, r.Value, ttl)
        splits == Split(r.Value, " ")
        nameParts == Split(r.Name, ".")
    IN  IF Len(r.TTL) > 0 /\ ~ttlParse.ok
        THEN << NilRecord, [kind |-> "failed to parse TTL", name |-> r.Name] >>
        ELSE CASE r.Type = "MX" ->
                    IF Len(splits) >= 2 /\ Atoi(splits[1]).ok
                    THEN << [kind |-> "MX", Name |-> r.Name, TTL |-> ttl,
                             Preference |-> Uint16(Atoi(splits[1]).val),
                             Target |-> splits[2] \o << "." >> \o zone],
                            NoErr >>
                    ELSE << rr, NoErr >>
               [] r.Type = "SRV" ->
                    IF /\ Len(splits) >= 4
                       /\ Atoi(splits[1]).ok
                       /\ Atoi(splits[2]).ok
                       /\ Atoi(splits[3]).ok
                       /\ Len(nameParts) >= 3
                       /\ HasPrefix(nameParts[1], << "_" >>)
                       /\ HasPrefix(nameParts[2], << "_" >>)
                    THEN << [kind |-> "SRV",
                             Service |-> TrimPrefix(nameParts[1], << "_" >>),
                             Transport |-> TrimPrefix(nameParts[2], << "_" >>),
                             Name |-> Join(SubSeq(nameParts, 3, Len(nameParts)), "."),
                             TTL |-> ttl,
                             Priority |-> Uint16(Atoi(splits[1]).val),
                             Weight |-> Uint16(Atoi(splits[2]).val),
                             Port |-> Uint16(Atoi(splits[3]).val),
                             Target |-> splits[4]],
                            NoErr >>
                    ELSE << rr, NoErr >>
               [] r.Type = "URI" -> << NilRecord, ErrUnsupported >>
               [] OTHER -> << rr, NoErr >>

\* adjustRecordForZone as it would be without the check for a name that
\* already ends with the subdomain: every name is extended.
adjustRecordForZoneAlways(record, requestedZone0, managedZone0) ==
    LET requestedZone == TrimSuffix(requestedZone0, << "." >>)
        managedZone   == TrimSuffix(managedZone0, << "." >>)
        subdomain ==
            IF requestedZone = managedZone THEN << >>
            ELSE TrimSuffix(requestedZone, << "." >> \o managedZone)
        rr == RR(record)
    IN  IF ~HasSuffix(requestedZone, managedZone) THEN record
        ELSE IF subdomain = << >> THEN record
        ELSE MkRR(rr.Name \o << "." >> \o subdomain, rr.Type, rr.Data, rr.TTL)

\* adjustRecordForZone as it would be if it took its zone arguments as they
\* come, trailing dot included.
adjustRecordForZoneNoTrim(record, requestedZone, managedZone) ==
    LET subdomain ==
            IF requestedZone = managedZone THEN << >>
            ELSE TrimSuffix(requestedZone, << "." >> \o managedZone)
        rr == RR(record)
    IN  IF ~HasSuffix(requestedZone, managedZone) THEN record
        ELSE IF subdomain = << >> THEN record
        ELSE IF HasSuffix(rr.Name, << "." >> \o subdomain) THEN record
        ELSE MkRR(rr.Name \o << "." >> \o subdomain, rr.Type, rr.Data, rr.TTL)

\* provider.go: adjustRecordForZone
adjustRecordForZone(record, requestedZone0, managedZone0) ==
    LET requestedZone == TrimSuffix(requestedZone0, << "." >>)
        managedZone   == TrimSuffix(managedZone0, << "." >>)
        subdomain ==
            IF requestedZone = managedZone THEN << >>
            ELSE TrimSuffix(requestedZone, << "." >> \o managedZone)
        rr == RR(record)
    IN  IF ~HasSuffix(requestedZone, managedZone) THEN record
        ELSE IF subdomain = << >> THEN record
        ELSE IF HasSuffix(rr.Name, << "." >> \o subdomain) THEN record
        ELSE MkRR(rr.Name \o << "." >> \o subdomain, rr.Type, rr.Data, rr.TTL)


(***************************************************************************)
(* HTTP.  A request is its path and its query parameters (a function from  *)
(* parameter name to value).  A response says whether the transport        *)
(* delivered it, its status, whether its body decodes as JSON, and the     *)
(* decoded fields.                                                         *)
(***************************************************************************)
StatusOK == 200

Yes == << "yes" >>

\* fmt.Sprintf("name=%v&value=%v", name, value)
NameValue(name, value) == << "name=" >> \o name \o << "&value=" >> \o value

\* fmt.Sprintf("%vrecs0", strings.ToLower(type))
EditKey(type) == ToLower(type) \o "recs0"

\* client.go: the query getZoneRecords builds
listQuery(zone) ==
    [json |-> Yes, full_mx_records |-> Yes, allow_dns_underscore |-> Yes,
     ttl |-> Yes, domain |-> zone]

\* the ttl parameter, set for every type but NS
ttlParam(rr) == IF rr.Type # "NS" THEN ("ttl" :> Itoa(rr.TTL)) ELSE << >>

\* client.go: the query appendZoneRecord builds
appendQuery(zone, record) ==
    LET rr == RR(record)
    IN  [action |-> << "add" >>, json |-> Yes, full_mx_records |-> Yes,
         allow_dns_underscore |-> Yes, domain |-> zone,
         type |-> << rr.Type >>, name |-> rr.Name, value |-> rr.Data]
        @@ ttlParam(rr)

\* the index setZoneRecord would find if its loop did not break at the
\* first match: the last existing record with the record's name and type
existingRecordIndexLast(existingRecords, rr) ==
    LET hits == {i \in 1..Len(existingRecords) :
                    /\ RR(existingRecords[i]).Name = rr.Name
                    /\ RR(existingRecords[i]).Type = rr.Type}
    IN  IF hits = {} THEN 0 ELSE CHOOSE i \in hits : \A j \in hits : i >= j

\* client.go: the index setZoneRecord finds, the first existing record with
\* the record's name and type; 0 stands for Go's -1.
existingRecordIndex(existingRecords, rr) ==
    LET hits == {i \in 1..Len(existingRecords) :
                    /\ RR(existingRecords[i]).Name = rr.Name
                    /\ RR(existingRecords[i]).Type = rr.Type}
    IN  IF hits = {} THEN 0 ELSE CHOOSE i \in hits : \A j \in hits : i <= j

\* client.go: the query setZoneRecord builds from the listing
setQuery(zone, record, existingRecords) ==
    LET rr == RR(record)
        i  == existingRecordIndex(existingRecords, rr)
    IN  [action |-> << "edit" >>, json |-> Yes, domain |-> zone,
         type |-> << rr.Type >>, name |-> rr.Name, value |-> rr.Data]
        @@ ttlParam(rr)
        @@ (IF i # 0 THEN (EditKey(rr.Type) :> RR(existingRecords[i]).Data)
            ELSE << >>)

\* client.go: the query deleteZoneRecord builds
deleteQuery(zone, record) ==
    LET rr == RR(record)
    IN  [action |-> << "select" >>, json |-> Yes, domain |-> zone]
        @@ (EditKey(rr.Type) :> NameValue(rr.Name, rr.Data))

\* client.go: what appendZoneRecord and setZoneRecord return on success
resultRecord(record) ==
    LET rr == RR(record)
    IN  MkRR(rr.Name, rr.Type, NameValue(rr.Name, rr.Data), rr.TTL)

\* executeRequest as it would be if it looked at the status code before
\* the error field, as getZoneRecords does.
executeRequestStatusFirst(resp) ==
    IF ~resp.conn THEN [kind |-> "transport"]
    ELSE IF resp.status # StatusOK
         THEN [kind |-> "api request failed with status code",
               code |-> resp.status]
    ELSE IF ~resp.json THEN [kind |-> "json decode"]
    ELSE IF Len(resp.error) > 0
         THEN [kind |-> "api error", error |-> resp.error,
               result |-> Split(resp.result, "\n")[1]]
    ELSE NoErr

\* client.go: executeRequest, from the response to the error it returns
executeRequest(resp) ==
    IF ~resp.conn THEN [kind |-> "transport"]
    ELSE IF ~resp.json THEN [kind |-> "json decode"]
    ELSE IF Len(resp.error) > 0
         THEN [kind |-> "api error", error |-> resp.error,
               result |-> Split(resp.result, "\n")[1]]
    ELSE IF resp.status # StatusOK
         THEN [kind |-> "api request failed with status code",
               code |-> resp.status]
    ELSE NoErr

\* client.go: the conversion loop of getZoneRecords over the decoded
\* records.  A record of an unsupported type makes libdnsRecord return a
\* nil Record, on which the loop calls RR(): a nil dereference.
RECURSIVE convertRecords(_, _, _)
convertRecords(records, zone, recs) ==
    IF records = << >> THEN [recs |-> recs, err |-> NoErr, panic |-> FALSE]
    ELSE LET conv == libdnsRecord(Head(records), zone)
         IN  IF conv[2] # NoErr
             THEN IF conv[2] = ErrUnsupported
                  THEN IF conv[1] = NilRecord
                       THEN [recs |-> << >>, err |-> NoErr, panic |-> TRUE]
                       ELSE convertRecords(Tail(records), zone, recs)
                  ELSE [recs |-> << >>, err |-> conv[2], panic |-> FALSE]
             ELSE convertRecords(Tail(records), zone, Append(recs, conv[1]))

\* client.go: getZoneRecords, from the response to what it returns
getZoneRecords(resp, zone) ==
    IF ~resp.conn
    THEN [recs |-> << >>, err |-> [kind |-> "transport"], panic |-> FALSE]
    ELSE IF resp.status # StatusOK
    THEN [recs |-> << >>,
          err |-> [kind |-> "api request failed with status code",
                   code |-> resp.status],
          panic |-> FALSE]
    ELSE IF ~resp.json
    THEN [recs |-> << >>, err |-> [kind |-> "json decode"], panic |-> FALSE]
    ELSE convertRecords(resp.records, zone, << >>)


(***************************************************************************)
(* The DirectAdmin server, as far as the provider can observe it: the      *)
(* domains of the account, the records of the managed zone, the commands   *)
(* the login key allows, and the answers it may give.                      *)
(***************************************************************************)
ShowDomains == "/CMD_API_SHOW_DOMAINS"

DNSControl == "/CMD_API_DNS_CONTROL"

ExampleZone == << "e", ".", "c" >>

ServerDomains == { ExampleZone }

\* A failed answer: no connection, a non-200 status, a body that is not
\* JSON, or (for the commands answered with daResponse) an error field.
StatusResponse ==
    [conn |-> TRUE, status |-> 500, json |-> TRUE, error |-> << >>,
     result |-> << >>, records |-> << >>]

FailedResponses ==
    { [conn |-> FALSE, status |-> 0, json |-> FALSE, error |-> << >>,
       result |-> << >>, records |-> << >>],
      StatusResponse,
      [conn |-> TRUE, status |-> StatusOK, json |-> FALSE, error |-> << >>,
       result |-> << >>, records |-> << >>] }

ErrorResponses ==
    { [conn |-> TRUE, status |-> StatusOK, json |-> TRUE, error |-> << "1" >>,
       result |-> << "x", "\n", "y" >>, records |-> << >>] }

OKResponse(records) ==
    [conn |-> TRUE, status |-> StatusOK, json |-> TRUE, error |-> << >>,
     result |-> << >>, records |-> records]

Accepted(resp) ==
    resp.conn /\ resp.status = StatusOK /\ resp.json /\ resp.error = << >>

\* How the server reads the selector of an edit request: "exact" (only in
\* the form name=<name>&value=<value>) or "any".
VARIABLE selectorForm

\* The selector of a stored record, as DirectAdmin's select0-style
\* parameters name it.
Selector(r) == NameValue(r.Name, r.Value)

\* The record an edit request selects.  A server that reads selectors
\* exactly selects the first record of the type whose selector is the
\* <type>recs0 parameter; a server that reads them in any form selects the
\* record the parameter was taken from, the first one with the name and
\* type of the request.
SelectedIndex(zoneRecs, query) ==
    LET type == query["type"][1]
        key  == EditKey(type)
        hits == IF key \in DOMAIN query
                THEN {i \in 1..Len(zoneRecs) :
                         /\ zoneRecs[i].Type = type
                         /\ IF selectorForm = "exact"
                            THEN Selector(zoneRecs[i]) = query[key]
                            ELSE zoneRecs[i].Name = query["name"]}
                ELSE {}
    IN  IF hits = {} THEN 0 ELSE CHOOSE i \in hits : \A j \in hits : i <= j

RemoveAt(seq, i) == SubSeq(seq, 1, i - 1) \o SubSeq(seq, i + 1, Len(seq))

StoredRecord(query) ==
    [Type |-> query["type"][1], Name |-> query["name"], Value |-> query["value"],
     TTL |-> IF "ttl" \in DOMAIN query THEN query["ttl"] ELSE << >>]

\* The record a select request names: the first stored record whose type
\* has a <type>recs0 parameter equal to its selector.
DeletedIndex(zoneRecs, query) ==
    LET hits == {i \in 1..Len(zoneRecs) :
                    /\ EditKey(zoneRecs[i].Type) \in DOMAIN query
                    /\ Selector(zoneRecs[i]) = query[EditKey(zoneRecs[i].Type)]}
    IN  IF hits = {} THEN 0 ELSE CHOOSE i \in hits : \A j \in hits : i <= j

\* The zone after the server accepts a request: add appends the record,
\* edit replaces the selected record (or appends when none is selected),
\* select deletes the selected record.
ServerApply(zoneRecs, query) ==
    LET action == query["action"]
    IN  IF action = << "add" >> THEN Append(zoneRecs, StoredRecord(query))
        ELSE IF action = << "edit" >>
        THEN LET i == SelectedIndex(zoneRecs, query)
             IN  IF i = 0 THEN Append(zoneRecs, StoredRecord(query))
                 ELSE [zoneRecs EXCEPT ![i] = StoredRecord(query)]
        ELSE LET i == DeletedIndex(zoneRecs, query)
             IN  IF i = 0 THEN zoneRecs ELSE RemoveAt(zoneRecs, i)


(***************************************************************************)
(* Zone detection.  findManageableZone is called by all four operations    *)
(* but its code is not among the sources: it is modelled from the          *)
(* specification (best-effort detection of the parent zone that exists on  *)
(* the server) as one CMD_API_SHOW_DOMAINS request, then the longest       *)
(* suffix of the requested zone, on a label boundary, among the account's  *)
(* domains; the requested zone itself when none is.                        *)
(***************************************************************************)
findManageableZone(zone, domains) ==
    LET z      == TrimSuffix(zone, << "." >>)
        labels == Split(z, ".")
        cand(k) == Join(SubSeq(labels, k, Len(labels)), ".")
        hits   == {k \in 1..Len(labels) : cand(k) \in domains}
    IN  IF hits = {} THEN z
        ELSE cand(CHOOSE k \in hits : \A j \in hits : k <= j)

(***************************************************************************)
(* fmt.Errorf and libdns.AtomicErr as SetRecords uses them.  A message is  *)
(* the sequence of the words of its format.                                *)
(***************************************************************************)
Errorf(words, errors) == [kind |-> "fmt", msg |-> words, errors |-> errors]

AtomicErr(e) == [kind |-> "AtomicErr", err |-> e]

IsAtomicErr(e) == e.kind = "AtomicErr"

Message(e) == IF e.kind = "AtomicErr" THEN e.err.msg
              ELSE IF e.kind = "fmt" THEN e.msg ELSE << e.kind >>

Contains(s, sub) ==
    \E k \in 0..(Len(s) - Len(sub)) : SubSeq(s, k + 1, k + Len(sub)) = sub

\* SetRecords' return as it would be without the all-failed case: any
\* failure is reported as a partial update.
setRecordsReturnPartialOnly(updated, errors) ==
    IF Len(errors) > 0
    THEN [recs |-> updated,
          err |-> Errorf(<< "partial", "update", "failed:" >>, errors)]
    ELSE [recs |-> updated, err |-> NoErr]

\* provider.go: what SetRecords returns after its loop
setRecordsReturn(updated, errors) ==
    IF Len(errors) > 0
    THEN IF Len(updated) = 0
         THEN [recs |-> << >>,
               err |-> AtomicErr(Errorf(<< "all", "records", "failed", "to",
                                           "update:" >>, errors))]
         ELSE [recs |-> updated,
               err |-> Errorf(<< "partial", "update", "failed:" >>, errors)]
    ELSE [recs |-> updated, err |-> NoErr]

(***************************************************************************)
(* State.                                                                  *)
(***************************************************************************)
VARIABLES
    ServerURL,        \* Provider.ServerURL
    keyCommands,      \* the commands Provider.LoginKey is allowed
    faults,           \* the failed answers the network and server may give
    mutex,            \* Provider.mutex: 0 when free, else its holder
    zoneRecs,         \* the server's records of the managed zone
    sent,             \* per goroutine: the requests it sent so far, in order
    call,             \* per goroutine: the operation it calls, with its arguments
    pc,               \* per goroutine: where its call stands
    managedZone,      \* per goroutine: findManageableZone's result
    idx,              \* per goroutine: the record its loop is at
    collected,        \* per goroutine: created / updated / deleted so far
    errors,           \* per goroutine: SetRecords' errors so far
    existingRecords,  \* per goroutine: setZoneRecord's listing
    attempts,         \* per goroutine: the records handed to the client so far
    ret,              \* per goroutine: what the call returned
    unit              \* a function called on its own: arguments and result

vars == << ServerURL, keyCommands, faults, mutex, zoneRecs, sent, call, pc,
           managedZone, idx, collected, errors, existingRecords, attempts,
           ret, unit, selectorForm >>

Goroutines == DOMAIN call

\* The shape of the state: the Provider's fields, and for every goroutine
\* the position and the locals of its call.
TypeOK ==
    /\ mutex \in { 0 } \cup Goroutines
    /\ pc \in [Goroutines -> { "start", "list", "loop", "append", "set", "edit",
                                "delete", "done", "panic" }]
    /\ idx \in [Goroutines -> Nat \ { 0 }]
    /\ \A g \in Goroutines :
          /\ idx[g] <= Len(call[g].records) + 1
          /\ Len(collected[g]) + Len(errors[g]) < idx[g]
          /\ Len(attempts[g]) \in { idx[g] - 1, idx[g] }

GoodURL == "https://da.example:2222"

BadURL == ":bad"

\* url.Parse(p.ServerURL) succeeds
ParseOK(u) == u # BadURL

ErrURL == [kind |-> "url parse"]

\* An entry of a request log: what was sent, whether the server accepted
\* it, and the input record it was sent for (0: for none).
Request(path, query, resp, rec) ==
    [path |-> path, query |-> query, ok |-> Accepted(resp), rec |-> rec]

Sent(g, request) == [sent EXCEPT ![g] = Append(@, request)]

\* The answers the server may give to a request: one of the failures of
\* this environment, or, to a request the login key allows for a domain of
\* the account, success.
Answers(path, query, records) ==
    IF path \in keyCommands /\ query["domain"] \in ServerDomains
    THEN faults \cup { OKResponse(records) }
    ELSE faults

\* A listing is decoded as a daZone, which has no error field.
ListAnswers(path, query, records) ==
    IF path \in keyCommands /\ query["domain"] \in ServerDomains
    THEN (faults \ ErrorResponses) \cup { OKResponse(records) }
    ELSE faults \ ErrorResponses

DomainAnswers ==
    IF ShowDomains \in keyCommands
    THEN (faults \ ErrorResponses) \cup { OKResponse(<< >>) }
    ELSE faults \ ErrorResponses

Crashed == \E g \in Goroutines : pc[g] = "panic"

\* the record the loops would hand to the client if they did not adjust it
unadjustedRecord(g) == call[g].records[idx[g]]

\* the record the loops of AppendRecords, SetRecords and DeleteRecords
\* hand to the client: adjusted when the managed zone is not the requested one
adjustedRecord(g) ==
    LET rec == call[g].records[idx[g]]
    IN  IF managedZone[g] # TrimSuffix(call[g].zone, << "." >>)
        THEN adjustRecordForZone(rec, call[g].zone, managedZone[g])
        ELSE rec

Return(g, recs, err) ==
    /\ ret' = [ret EXCEPT ![g] = [recs |-> recs, err |-> err]]
    /\ pc' = [pc EXCEPT ![g] = "done"]


(***************************************************************************)
(* The operations.  Each HTTP exchange is one step; a goroutine holds the  *)
(* mutex from the step that locks it to the step that returns from the     *)
(* client function (the deferred Unlock).                                  *)
(***************************************************************************)
ErrZone == [kind |-> "zone detection"]

\* The first statement of the operations as it would be if the error of
\* zone detection were dropped: the operation goes on with the zone as
\* requested.
DetectZoneIgnoringError(g) ==
    /\ ~Crashed
    /\ pc[g] = "start"
    /\ managedZone' =
          [managedZone EXCEPT
             ![g] = findManageableZone(call[g].zone, ServerDomains)]
    /\ pc' = [pc EXCEPT
                ![g] = IF call[g].op = "GetRecords" THEN "list" ELSE "loop"]
    /\ IF ~ParseOK(ServerURL)
       THEN UNCHANGED sent
       ELSE \E resp \in DomainAnswers :
              sent' = Sent(g, Request(ShowDomains, << >>, resp, 0))
    /\ UNCHANGED << unit, selectorForm, ServerURL, keyCommands, faults, mutex, zoneRecs, call,
                    idx, collected, errors, existingRecords, attempts, ret >>

\* provider.go: the first statement of every operation
DetectZone(g) ==
    /\ ~Crashed
    /\ pc[g] = "start"
    /\ IF ~ParseOK(ServerURL)
       THEN /\ Return(g, << >>, ErrURL)
            /\ UNCHANGED << sent, managedZone >>
       ELSE \E resp \in DomainAnswers :
              /\ sent' = Sent(g, Request(ShowDomains, << >>, resp, 0))
              /\ IF Accepted(resp)
                 THEN /\ managedZone' =
                            [managedZone EXCEPT
                               ![g] = findManageableZone(call[g].zone, ServerDomains)]
                      /\ pc' = [pc EXCEPT
                                  ![g] = IF call[g].op = "GetRecords"
                                         THEN "list" ELSE "loop"]
                      /\ UNCHANGED ret
                 ELSE /\ Return(g, << >>, ErrZone)
                      /\ UNCHANGED managedZone
    /\ UNCHANGED << unit, selectorForm, ServerURL, keyCommands, faults, mutex, zoneRecs, call, idx,
                    collected, errors, existingRecords, attempts >>

\* GetRecords as it would be if its listing carried an action: the request
\* selects the first record of the zone, and the server deletes it.
GetRecordsSelecting(g) ==
    /\ ~Crashed
    /\ pc[g] = "list"
    /\ IF ~ParseOK(ServerURL)
       THEN /\ Return(g, << >>, ErrURL)
            /\ UNCHANGED << sent, zoneRecs >>
       ELSE LET query == listQuery(managedZone[g])
                         @@ [action |-> << "select" >>]
                         @@ (IF zoneRecs = << >> THEN << >>
                             ELSE (EditKey(zoneRecs[1].Type)
                                      :> Selector(zoneRecs[1])))
            IN  \E resp \in ListAnswers(DNSControl, query, zoneRecs) :
                  LET r == getZoneRecords(resp, managedZone[g])
                  IN  /\ sent' = Sent(g, Request(DNSControl, query, resp, 0))
                      /\ zoneRecs' = IF Accepted(resp)
                                     THEN ServerApply(zoneRecs, query)
                                     ELSE zoneRecs
                      /\ IF r.panic
                         THEN /\ pc' = [pc EXCEPT ![g] = "panic"]
                              /\ UNCHANGED ret
                         ELSE Return(g, r.recs, r.err)
    /\ UNCHANGED << unit, selectorForm, ServerURL, keyCommands, faults, mutex, call,
                    managedZone, idx, collected, errors, existingRecords,
                    attempts >>

\* provider.go: GetRecords after zone detection
GetRecords(g) ==
    /\ ~Crashed
    /\ pc[g] = "list"
    /\ IF ~ParseOK(ServerURL)
       THEN /\ Return(g, << >>, ErrURL)
            /\ UNCHANGED sent
       ELSE LET query == listQuery(managedZone[g])
            IN  \E resp \in ListAnswers(DNSControl, query, zoneRecs) :
                  LET r == getZoneRecords(resp, managedZone[g])
                  IN  /\ sent' = Sent(g, Request(DNSControl, query, resp, 0))
                      /\ IF r.panic
                         THEN /\ pc' = [pc EXCEPT ![g] = "panic"]
                              /\ UNCHANGED ret
                         ELSE Return(g, r.recs, r.err)
    /\ UNCHANGED << unit, selectorForm, ServerURL, keyCommands, faults, mutex, zoneRecs, call, managedZone,
                    idx, collected, errors, existingRecords, attempts >>

\* Lock as it would be if the mutex did not exclude: the client function
\* is entered whoever holds the mutex.
LockWithoutExclusion(g, op, at) ==
    /\ ~Crashed
    /\ pc[g] = "loop"
    /\ call[g].op = op
    /\ idx[g] <= Len(call[g].records)
    /\ mutex' = g
    /\ pc' = [pc EXCEPT ![g] = at]
    /\ attempts' = [attempts EXCEPT ![g] = Append(@, adjustedRecord(g))]
    /\ UNCHANGED << unit, selectorForm, ServerURL, keyCommands, faults, zoneRecs, sent, call,
                    managedZone, idx, collected, errors, existingRecords, ret >>

\* p.mutex.Lock() at the head of appendZoneRecord, setZoneRecord and
\* deleteZoneRecord
Lock(g, op, at) ==
    /\ ~Crashed
    /\ pc[g] = "loop"
    /\ call[g].op = op
    /\ idx[g] <= Len(call[g].records)
    /\ mutex = 0
    /\ mutex' = g
    /\ pc' = [pc EXCEPT ![g] = at]
    /\ attempts' = [attempts EXCEPT ![g] = Append(@, adjustedRecord(g))]
    /\ UNCHANGED << unit, selectorForm, ServerURL, keyCommands, faults, zoneRecs, sent, call, managedZone,
                    idx, collected, errors, existingRecords, ret >>

appendZoneRecordLock(g) == Lock(g, "AppendRecords", "append")

setZoneRecordLock(g) == Lock(g, "SetRecords", "set")

deleteZoneRecordLock(g) == Lock(g, "DeleteRecords", "delete")

\* the loop of AppendRecords and DeleteRecords as it would be if it went on
\* to the next record after an error
SkipOnError(g, result, err) ==
    /\ IF err # NoErr
       THEN UNCHANGED collected
       ELSE collected' = [collected EXCEPT ![g] = Append(@, result)]
    /\ idx' = [idx EXCEPT ![g] = @ + 1]
    /\ pc' = [pc EXCEPT ![g] = "loop"]
    /\ UNCHANGED ret

\* the loop of AppendRecords and DeleteRecords after the client returned
\* <<result, err>>: stop at the first error
StopOnError(g, result, err) ==
    IF err # NoErr
    THEN /\ Return(g, << >>, err)
         /\ UNCHANGED << collected, idx >>
    ELSE /\ collected' = [collected EXCEPT ![g] = Append(@, result)]
         /\ idx' = [idx EXCEPT ![g] = @ + 1]
         /\ pc' = [pc EXCEPT ![g] = "loop"]
         /\ UNCHANGED ret

\* the loop of SetRecords as it would be if it returned at the first error,
\* as the loops of AppendRecords and DeleteRecords do
CollectErrorAndStop(g, result, err) ==
    IF err # NoErr
    THEN /\ Return(g, << >>, err)
         /\ UNCHANGED << collected, errors, idx >>
    ELSE /\ collected' = [collected EXCEPT ![g] = Append(@, result)]
         /\ idx' = [idx EXCEPT ![g] = @ + 1]
         /\ pc' = [pc EXCEPT ![g] = "loop"]
         /\ UNCHANGED << errors, ret >>

\* the loop of SetRecords after setZoneRecord returned <<result, err>>:
\* collect the error and go on
CollectError(g, result, err) ==
    /\ IF err # NoErr
       THEN /\ errors' = [errors EXCEPT ![g] = Append(@, err)]
            /\ UNCHANGED collected
       ELSE /\ collected' = [collected EXCEPT ![g] = Append(@, result)]
            /\ UNCHANGED errors
    /\ idx' = [idx EXCEPT ![g] = @ + 1]
    /\ pc' = [pc EXCEPT ![g] = "loop"]
    /\ UNCHANGED ret

\* appendZoneRecord as it would be if AppendRecords handed it the zone as
\* requested instead of the managed zone.
appendZoneRecordForRequestedZone(g) ==
    /\ ~Crashed
    /\ pc[g] = "append"
    /\ mutex' = 0
    /\ IF ~ParseOK(ServerURL)
       THEN /\ StopOnError(g, NilRecord, ErrURL)
            /\ UNCHANGED << sent, zoneRecs >>
       ELSE LET record == adjustedRecord(g)
                query  == appendQuery(call[g].zone, record)
            IN  \E resp \in Answers(DNSControl, query, << >>) :
                  /\ sent' = Sent(g, Request(DNSControl, query, resp, idx[g]))
                  /\ zoneRecs' = IF Accepted(resp)
                                 THEN ServerApply(zoneRecs, query) ELSE zoneRecs
                  /\ StopOnError(g, resultRecord(record), executeRequest(resp))
    /\ UNCHANGED << unit, selectorForm, ServerURL, keyCommands, faults, call, managedZone,
                    errors, existingRecords, attempts >>

\* client.go: appendZoneRecord under the lock, and the loop step of
\* AppendRecords that follows it
appendZoneRecord(g) ==
    /\ ~Crashed
    /\ pc[g] = "append"
    /\ mutex' = 0
    /\ IF ~ParseOK(ServerURL)
       THEN /\ StopOnError(g, NilRecord, ErrURL)
            /\ UNCHANGED << sent, zoneRecs >>
       ELSE LET record == adjustedRecord(g)
                query  == appendQuery(managedZone[g], record)
            IN  \E resp \in Answers(DNSControl, query, << >>) :
                  /\ sent' = Sent(g, Request(DNSControl, query, resp, idx[g]))
                  /\ zoneRecs' = IF Accepted(resp)
                                 THEN ServerApply(zoneRecs, query) ELSE zoneRecs
                  /\ StopOnError(g, resultRecord(record), executeRequest(resp))
    /\ UNCHANGED << unit, selectorForm, ServerURL, keyCommands, faults, call, managedZone, errors,
                    existingRecords, attempts >>

\* setZoneRecord as it would be if the lock covered the listing only: the
\* mutex is free again between the listing and the edit.
setZoneRecordListOnlyLocked(g) ==
    /\ ~Crashed
    /\ pc[g] = "set"
    /\ IF ~ParseOK(ServerURL)
       THEN /\ mutex' = 0
            /\ CollectError(g, NilRecord, ErrURL)
            /\ UNCHANGED << sent, existingRecords >>
       ELSE LET query == listQuery(managedZone[g])
            IN  \E resp \in ListAnswers(DNSControl, query, zoneRecs) :
                  LET r == getZoneRecords(resp, managedZone[g])
                  IN  /\ sent' = Sent(g, Request(DNSControl, query, resp, idx[g]))
                      /\ IF r.panic
                         THEN /\ mutex' = 0
                              /\ pc' = [pc EXCEPT ![g] = "panic"]
                              /\ UNCHANGED << existingRecords, collected, errors,
                                              idx, ret >>
                         ELSE IF r.err # NoErr
                         THEN /\ mutex' = 0
                              /\ CollectError(g, NilRecord, r.err)
                              /\ UNCHANGED existingRecords
                         ELSE /\ existingRecords' =
                                    [existingRecords EXCEPT ![g] = r.recs]
                              /\ pc' = [pc EXCEPT ![g] = "edit"]
                              /\ mutex' = 0
                              /\ UNCHANGED << collected, errors, idx, ret >>
    /\ UNCHANGED << unit, selectorForm, ServerURL, keyCommands, faults, zoneRecs, call, managedZone,
                    attempts >>

\* setZoneRecord as it would be if the listing were fetched for the first
\* record of a call only: for the later records no listing is requested.
setZoneRecordListOnce(g) ==
    /\ ~Crashed
    /\ pc[g] = "set"
    /\ IF ~ParseOK(ServerURL)
       THEN /\ mutex' = 0
            /\ CollectError(g, NilRecord, ErrURL)
            /\ UNCHANGED << sent, existingRecords >>
       ELSE IF idx[g] > 1
       THEN /\ pc' = [pc EXCEPT ![g] = "edit"]
            /\ UNCHANGED << sent, existingRecords, mutex, collected, errors,
                            idx, ret >>
       ELSE LET query == listQuery(managedZone[g])
            IN  \E resp \in ListAnswers(DNSControl, query, zoneRecs) :
                  LET r == getZoneRecords(resp, managedZone[g])
                  IN  /\ sent' = Sent(g, Request(DNSControl, query, resp, idx[g]))
                      /\ IF r.panic
                         THEN /\ mutex' = 0
                              /\ pc' = [pc EXCEPT ![g] = "panic"]
                              /\ UNCHANGED << existingRecords, collected, errors,
                                              idx, ret >>
                         ELSE IF r.err # NoErr
                         THEN /\ mutex' = 0
                              /\ CollectError(g, NilRecord, r.err)
                              /\ UNCHANGED existingRecords
                         ELSE /\ existingRecords' =
                                    [existingRecords EXCEPT ![g] = r.recs]
                              /\ pc' = [pc EXCEPT ![g] = "edit"]
                              /\ UNCHANGED << mutex, collected, errors, idx, ret >>
    /\ UNCHANGED << unit, selectorForm, ServerURL, keyCommands, faults, zoneRecs, call,
                    managedZone, attempts >>

\* client.go: setZoneRecord under the lock, up to the listing
setZoneRecordList(g) ==
    /\ ~Crashed
    /\ pc[g] = "set"
    /\ IF ~ParseOK(ServerURL)
       THEN /\ mutex' = 0
            /\ CollectError(g, NilRecord, ErrURL)
            /\ UNCHANGED << sent, existingRecords >>
       ELSE LET query == listQuery(managedZone[g])
            IN  \E resp \in ListAnswers(DNSControl, query, zoneRecs) :
                  LET r == getZoneRecords(resp, managedZone[g])
                  IN  /\ sent' = Sent(g, Request(DNSControl, query, resp, idx[g]))
                      /\ IF r.panic
                         THEN /\ mutex' = 0
                              /\ pc' = [pc EXCEPT ![g] = "panic"]
                              /\ UNCHANGED << existingRecords, collected, errors,
                                              idx, ret >>
                         ELSE IF r.err # NoErr
                         THEN /\ mutex' = 0
                              /\ CollectError(g, NilRecord, r.err)
                              /\ UNCHANGED existingRecords
                         ELSE /\ existingRecords' =
                                    [existingRecords EXCEPT ![g] = r.recs]
                              /\ pc' = [pc EXCEPT ![g] = "edit"]
                              /\ UNCHANGED << mutex, collected, errors, idx, ret >>
    /\ UNCHANGED << unit, selectorForm, ServerURL, keyCommands, faults, zoneRecs, call, managedZone,
                    attempts >>

\* client.go: setZoneRecord from the listing to its return, and the loop
\* step of SetRecords that follows it
setZoneRecord(g) ==
    /\ ~Crashed
    /\ pc[g] = "edit"
    /\ mutex' = 0
    /\ LET record == adjustedRecord(g)
           query  == setQuery(managedZone[g], record, existingRecords[g])
       IN  \E resp \in Answers(DNSControl, query, << >>) :
             /\ sent' = Sent(g, Request(DNSControl, query, resp, idx[g]))
             /\ zoneRecs' = IF Accepted(resp)
                            THEN ServerApply(zoneRecs, query) ELSE zoneRecs
             /\ CollectError(g, resultRecord(record), executeRequest(resp))
    /\ existingRecords' = [existingRecords EXCEPT ![g] = << >>]
    /\ UNCHANGED << unit, selectorForm, ServerURL, keyCommands, faults, call, managedZone, attempts >>

\* client.go: deleteZoneRecord under the lock, and the loop step of
\* DeleteRecords that follows it
deleteZoneRecord(g) ==
    /\ ~Crashed
    /\ pc[g] = "delete"
    /\ mutex' = 0
    /\ IF ~ParseOK(ServerURL)
       THEN /\ StopOnError(g, NilRecord, ErrURL)
            /\ UNCHANGED << sent, zoneRecs >>
       ELSE LET record == adjustedRecord(g)
                query  == deleteQuery(managedZone[g], record)
            IN  \E resp \in Answers(DNSControl, query, << >>) :
                  /\ sent' = Sent(g, Request(DNSControl, query, resp, idx[g]))
                  /\ zoneRecs' = IF Accepted(resp)
                                 THEN ServerApply(zoneRecs, query) ELSE zoneRecs
                  /\ StopOnError(g, record, executeRequest(resp))
    /\ UNCHANGED << unit, selectorForm, ServerURL, keyCommands, faults, call, managedZone, errors,
                    existingRecords, attempts >>

\* provider.go: the return after the loop of AppendRecords, SetRecords and
\* DeleteRecords
LoopExit(g) ==
    /\ ~Crashed
    /\ pc[g] = "loop"
    /\ idx[g] > Len(call[g].records)
    /\ IF call[g].op = "SetRecords"
       THEN LET r == setRecordsReturn(collected[g], errors[g])
            IN  Return(g, r.recs, r.err)
       ELSE Return(g, collected[g], NoErr)
    /\ UNCHANGED << unit, selectorForm, ServerURL, keyCommands, faults, mutex, zoneRecs, sent, call,
                    managedZone, idx, collected, errors, existingRecords,
                    attempts >>

Next ==
    \/ \E g \in Goroutines : DetectZone(g)
    \/ \E g \in Goroutines : GetRecords(g)
    \/ \E g \in Goroutines : appendZoneRecordLock(g)
    \/ \E g \in Goroutines : appendZoneRecord(g)
    \/ \E g \in Goroutines : setZoneRecordLock(g)
    \/ \E g \in Goroutines : setZoneRecordList(g)
    \/ \E g \in Goroutines : setZoneRecord(g)
    \/ \E g \in Goroutines : deleteZoneRecordLock(g)
    \/ \E g \in Goroutines : deleteZoneRecord(g)
    \/ \E g \in Goroutines : LoopExit(g)

(***************************************************************************)
(* Initial states: the Provider as constructed, the server's zone, and the *)
(* calls the goroutines are about to make.                                 *)
(***************************************************************************)
NumGoroutines == 2

MaxRecords == 2

SubZone == << "t", "." >> \o ExampleZone

DotZone == ExampleZone \o << "." >>

RecA1 == MkRR(<< "n" >>, "A", << "1" >>, 30)

RecA2 == MkRR(<< "n" >>, "A", << "2" >>, 30)

RecTXT == MkRR(<< "n" >>, "TXT", << "v" >>, 0)

\* a record whose name already ends with the subdomain of SubZone
RecSub == MkRR(<< "n", ".", "t" >>, "A", << "1" >>, 30)

InputRecords == { RecA1, RecA2, RecTXT, RecSub }

DaA == [Type |-> "A", Name |-> << "n" >>, Value |-> << "1" >>,
        TTL |-> << "3", "0" >>]

DaMX == [Type |-> "MX", Name |-> << "m" >>, Value |-> << "5", " ", "x" >>,
         TTL |-> << >>]

DaURI == [Type |-> "URI", Name |-> << "u" >>, Value |-> << "w" >>,
          TTL |-> << "3", "0" >>]

DaBadTTL == [Type |-> "TXT", Name |-> << "n" >>, Value |-> << "v" >>,
             TTL |-> << "x" >>]

\* a second record with the name and type of DaA
DaA2 == [Type |-> "A", Name |-> << "n" >>, Value |-> << "2" >>,
         TTL |-> << "3", "0" >>]

ZoneContents ==
    { << >>, << DaA, DaMX >>, << DaA, DaURI >>, << DaBadTTL, DaA >>,
      << DaA2, DaA >> }

AllCommands == { ShowDomains, DNSControl }

SeqsUpTo(S, n) == UNION { [1..k -> S] : k \in 0..n }

Calls(ops, zones, lists) ==
    { [op |-> o, zone |-> z,
       records |-> IF o = "GetRecords" THEN << >> ELSE l] :
         o \in ops, z \in zones, l \in lists }

Ops == { "GetRecords", "AppendRecords", "SetRecords", "DeleteRecords" }

\* no function is called on its own
NoUnit == [fn |-> "none", args |-> << >>, done |-> FALSE, result |-> << >>]

InitWith(G, calls, urls, keys, contents, failures, units, forms) ==
    /\ faults = failures
    /\ ServerURL \in urls
    /\ keyCommands \in keys
    /\ zoneRecs \in contents
    /\ call \in [G -> calls]
    /\ mutex = 0
    /\ sent = [g \in G |-> << >>]
    /\ pc = [g \in G |-> "start"]
    /\ managedZone = [g \in G |-> << >>]
    /\ idx = [g \in G |-> 1]
    /\ collected = [g \in G |-> << >>]
    /\ errors = [g \in G |-> << >>]
    /\ existingRecords = [g \in G |-> << >>]
    /\ attempts = [g \in G |-> << >>]
    /\ ret = [g \in G |-> [recs |-> << >>, err |-> NoErr]]
    /\ unit \in units
    /\ selectorForm \in forms

\* Goroutines sharing one Provider, each making one call.
Init ==
    InitWith(1..NumGoroutines,
             Calls(Ops, { ExampleZone }, { << RecA1, RecTXT >> }),
             { GoodURL }, { AllCommands }, { << DaA >> }, { StatusResponse },
             { NoUnit }, { "exact" })

Spec == Init /\ [][Next]_vars

\* One goroutine making one call, over every input.
InitCall ==
    InitWith({ 1 },
             Calls(Ops, { ExampleZone, DotZone, SubZone },
                   SeqsUpTo(InputRecords, MaxRecords)),
             { GoodURL, BadURL }, { AllCommands, { ShowDomains } }, ZoneContents,
             FailedResponses \cup ErrorResponses, { NoUnit },
             { "exact", "any" })

SpecCall == InitCall /\ [][Next]_vars

(***************************************************************************)
(* The functions that depend on their arguments only, called on their own. *)
(***************************************************************************)
UnitCall(fn, args) == [fn |-> fn, args |-> args, done |-> FALSE, result |-> << >>]

DeepZone == << "a", "." >> \o SubZone

\* a zone that ends with the text of ExampleZone without being below it
LookalikeZone == << "x" >> \o ExampleZone

RequestedZones ==
    { ExampleZone, DotZone, SubZone, SubZone \o << "." >>, DeepZone,
      DeepZone \o << "." >>, LookalikeZone }

ManagedZones == { ExampleZone, DotZone, SubZone }

RecMX == [kind |-> "MX", Name |-> << "m" >>, TTL |-> 60, Preference |-> 5,
          Target |-> << "x" >>]

RecSRV == [kind |-> "SRV", Service |-> << "s" >>, Transport |-> << "p" >>,
           Name |-> << "n" >>, TTL |-> 0, Priority |-> 1, Weight |-> 2,
           Port |-> 3, Target |-> << "x" >>]

AdjustRecords ==
    { RecTXT, RecMX, RecSRV,
      MkRR(<< "t" >>, "A", << "1" >>, 30),
      MkRR(<< "n", ".", "t" >>, "TXT", << "v" >>, 30),
      MkRR(<< "n", ".", "a", ".", "t" >>, "TXT", << "v" >>, 30) }

adjustRecordForZoneCalls ==
    { UnitCall("adjustRecordForZone",
               [record |-> r, requestedZone |-> z, managedZone |-> m]) :
        r \in AdjustRecords, z \in RequestedZones, m \in ManagedZones }

DaTypes == { "A", "AAAA", "TXT", "MX", "SRV", "NS", "CNAME", "URI" }

DaNames == { << "n" >>, << "_", "s", ".", "_", "p", ".", "n" >> }

DaValues ==
    { << "1" >>, << "5", " ", "x" >>, << "1", " ", "2", " ", "3", " ", "x" >> }

DaTTLs == { << >>, << "3", "0" >>, << "x" >> }

libdnsRecordCalls ==
    { UnitCall("libdnsRecord",
               [r |-> [Type |-> t, Name |-> n, Value |-> v, TTL |-> l],
                zone |-> ExampleZone]) :
        t \in DaTypes, n \in DaNames, v \in DaValues, l \in DaTTLs }

Responses ==
    [conn : { TRUE }, status : { StatusOK, 500 }, json : BOOLEAN,
     error : { << >>, << "1" >> },
     result : { << >>, << "x" >>, << "x", "\n", "y" >> },
     records : { << >> }]
    \cup FailedResponses

executeRequestCalls ==
    { UnitCall("executeRequest", [resp |-> r]) : r \in Responses }

Returns(result) == unit' = [unit EXCEPT !.done = TRUE, !.result = result]

adjustRecordForZoneCall ==
    /\ unit.fn = "adjustRecordForZone"
    /\ ~unit.done
    /\ Returns(adjustRecordForZone(unit.args.record, unit.args.requestedZone,
                                   unit.args.managedZone))
    /\ UNCHANGED << selectorForm, ServerURL, keyCommands, faults, mutex, zoneRecs, sent, call,
                    pc, managedZone, idx, collected, errors, existingRecords,
                    attempts, ret >>

libdnsRecordCall ==
    /\ unit.fn = "libdnsRecord"
    /\ ~unit.done
    /\ Returns(libdnsRecord(unit.args.r, unit.args.zone))
    /\ UNCHANGED << selectorForm, ServerURL, keyCommands, faults, mutex, zoneRecs, sent, call,
                    pc, managedZone, idx, collected, errors, existingRecords,
                    attempts, ret >>

executeRequestCall ==
    /\ unit.fn = "executeRequest"
    /\ ~unit.done
    /\ Returns(executeRequest(unit.args.resp))
    /\ UNCHANGED << selectorForm, ServerURL, keyCommands, faults, mutex, zoneRecs, sent, call,
                    pc, managedZone, idx, collected, errors, existingRecords,
                    attempts, ret >>

NextUnit ==
    \/ adjustRecordForZoneCall
    \/ libdnsRecordCall
    \/ executeRequestCall

\* No goroutine, no call: one function applied to one choice of arguments.
InitUnit ==
    InitWith({ }, { }, { GoodURL }, { AllCommands }, { << >> }, { },
             adjustRecordForZoneCalls \cup libdnsRecordCalls
                 \cup executeRequestCalls,
             { "exact" })

SpecUnit == InitUnit /\ [][NextUnit]_vars


(***************************************************************************)
(* Properties.                                                             *)
(***************************************************************************)
Mutating == { "AppendRecords", "SetRecords", "DeleteRecords" }

\* g is between the Lock and the deferred Unlock of appendZoneRecord,
\* setZoneRecord or deleteZoneRecord
InClient(g) == pc[g] \in { "append", "set", "edit", "delete" }

\* the requests of a log that carry an action parameter (add, edit, select)
Mutations(log) == SelectSeq(log, LAMBDA r : "action" \in DOMAIN r.query)

\* the requests of a log sent from inside a client function, for a record
PerRecord(log) == SelectSeq(log, LAMBDA r : r.rec # 0)

Waiting(g) ==
    /\ pc[g] = "loop"
    /\ call[g].op \in Mutating
    /\ idx[g] <= Len(call[g].records)

\* C1: on one Provider at most one goroutine is between the Lock and the
\* Unlock of appendZoneRecord, setZoneRecord and deleteZoneRecord, and that
\* goroutine is the holder of the mutex.
C1_MutualExclusion ==
    \A g, h \in Goroutines :
        InClient(g) /\ InClient(h) => g = h /\ mutex = g

\* C1's case: one goroutine is inside a client function while another one,
\* running a different operation, is at the Lock.
C1_Witness ==
    \E g, h \in Goroutines :
        /\ g # h
        /\ InClient(g)
        /\ Waiting(h)
        /\ call[g].op # call[h].op

\* C2: while a goroutine is between the listing and the edit of
\* setZoneRecord it holds the mutex, and no step sends an add, edit or
\* delete request of another goroutine.
C2_ListingAndEditInOneSection ==
    [][\A g \in Goroutines :
          pc[g] = "edit" =>
             /\ mutex = g
             /\ \A h \in Goroutines \ { g } :
                   Mutations(sent'[h]) = Mutations(sent[h])]_vars

\* C2's case: a goroutine has listed and not yet edited, and another
\* goroutine that has already sent a request for a record wants the lock
\* for its next one.
C2_Witness ==
    \E g, h \in Goroutines :
        /\ g # h
        /\ pc[g] = "edit"
        /\ Waiting(h)
        /\ Mutations(sent[h]) # << >>

\* g is in the middle of the per-record requests of a mutating call of two
\* or more records: it has sent one, and has another one to send.
InProgress(g) ==
    /\ call[g].op \in Mutating
    /\ Len(call[g].records) >= 2
    /\ PerRecord(sent[g]) # << >>
    /\ InClient(g) \/ Waiting(g)

\* C3 as stated: the per-record requests of two concurrent calls do not
\* interleave, that is, no two calls are in the middle of theirs at once.
C3_CallsSerialized ==
    \A g, h \in Goroutines : InProgress(g) /\ InProgress(h) => g = h

\* C3, amended: the lock serializes the client functions, not the calls.  A
\* step that sends a request from inside appendZoneRecord, setZoneRecord or
\* deleteZoneRecord is taken while no other goroutine is inside one of
\* them, so the requests for one record are never split by the requests
\* for another.
C3_RecordsSerialized ==
    [][\A g \in Goroutines :
          PerRecord(sent'[g]) # PerRecord(sent[g]) =>
             \A h \in Goroutines \ { g } : ~InClient(h)]_vars

\* C3's case: two calls are in the middle of their records at once, and
\* one of them is about to send.
C3_Witness ==
    \E g, h \in Goroutines :
        /\ g # h
        /\ InProgress(g)
        /\ InProgress(h)
        /\ InClient(g)
        /\ Len(collected[h]) >= 1


\* zone detection succeeded for g's call
Detected(g) ==
    /\ sent[g] # << >>
    /\ sent[g][1].path = ShowDomains
    /\ sent[g][1].ok

\* the input records of g's call whose add, edit or delete request the
\* server accepted
AcceptedRecs(g) ==
    { sent[g][k].rec : k \in { j \in 1..Len(sent[g]) :
                                 /\ "action" \in DOMAIN sent[g][j].query
                                 /\ sent[g][j].ok } }

\* the elements of seq at the indices in S, in order
PickIdx(seq, S) ==
    LET at == SelectSeq([i \in 1..Len(seq) |-> i], LAMBDA i : i \in S)
    IN  [k \in 1..Len(at) |-> seq[at[k]]]

\* the same record, whatever its Data
SameRecord(a, b) ==
    /\ RR(a).Name = RR(b).Name
    /\ RR(a).Type = RR(b).Type
    /\ RR(a).TTL = RR(b).TTL

SameRecords(as, bs) ==
    /\ Len(as) = Len(bs)
    /\ \A k \in 1..Len(as) : SameRecord(as[k], bs[k])

Returned(g, op) == pc[g] = "done" /\ call[g].op = op

\* C4: when SetRecords was called with a non-empty list, handed every
\* record to setZoneRecord and the server accepted none, it returns no
\* records and an AtomicErr whose message contains "all records failed".
C4_AllFailedIsAtomicErr ==
    \A g \in Goroutines :
        /\ Returned(g, "SetRecords")
        /\ Len(call[g].records) > 0
        /\ Len(attempts[g]) = Len(call[g].records)
        /\ AcceptedRecs(g) = {}
        => /\ ret[g].recs = << >>
           /\ IsAtomicErr(ret[g].err)
           /\ Contains(Message(ret[g].err), << "all", "records", "failed" >>)

\* C4's case: a SetRecords call of two records, both refused, has returned.
C4_Witness ==
    \E g \in Goroutines :
        /\ Returned(g, "SetRecords")
        /\ Len(call[g].records) = 2
        /\ Len(attempts[g]) = 2
        /\ AcceptedRecs(g) = {}
        /\ Len(Mutations(sent[g])) >= 1

C6_AppendReturnsAdded ==
    \A g \in Goroutines :
        Returned(g, "AppendRecords") =>
            ret[g].recs = PickIdx(attempts[g], AcceptedRecs(g))

\* C7 as stated: DeleteRecords returns exactly the records whose delete
\* request the server accepted during the call, in input order.
C7_DeleteReturnsDeleted ==
    \A g \in Goroutines :
        Returned(g, "DeleteRecords") =>
            ret[g].recs = PickIdx(attempts[g], AcceptedRecs(g))

\* the listing request of a GetRecords call was answered with the zone
Listed(g) ==
    /\ call[g].op = "GetRecords"
    /\ Len(sent[g]) = 2
    /\ sent[g][2].ok

\* every ttl of the listing is empty or a number
TTLsValid(records) ==
    \A i \in 1..Len(records) :
        records[i].TTL = << >> \/ Atoi(records[i].TTL).ok

\* rec is the conversion of the listed record r
Lists(rec, r) == RR(rec).Name = r.Name /\ RR(rec).Type = r.Type

\* C8 as stated: when the listing request succeeds (with well-formed
\* ttls), GetRecords returns every listed record once, in listing order,
\* and no error.
C8_GetRecordsListsAll ==
    \A g \in Goroutines :
        Listed(g) /\ TTLsValid(zoneRecs) =>
           /\ pc[g] = "done"
           /\ ret[g].err = NoErr
           /\ Len(ret[g].recs) = Len(zoneRecs)
           /\ \A i \in 1..Len(zoneRecs) : Lists(ret[g].recs[i], zoneRecs[i])

\* C9 as stated: when the listing holds a URI record, GetRecords completes
\* normally and returns the other records, in order, and no error.
C9_UnsupportedRecordSkipped ==
    \A g \in Goroutines :
        /\ Listed(g)
        /\ TTLsValid(zoneRecs)
        /\ \E i \in 1..Len(zoneRecs) : zoneRecs[i].Type = "URI"
        => LET rest == SelectSeq(zoneRecs, LAMBDA r : r.Type # "URI")
           IN  /\ pc[g] = "done"
               /\ ret[g].err = NoErr
               /\ Len(ret[g].recs) = Len(rest)
               /\ \A i \in 1..Len(rest) : Lists(ret[g].recs[i], rest[i])

\* C10 as stated: GetRecords sends no request to CMD_API_DNS_CONTROL, so
\* that it works with a login key that is not allowed that command.
C10_GetRecordsWithoutDNSControl ==
    \A g \in Goroutines :
        call[g].op = "GetRecords" =>
           \A k \in 1..Len(sent[g]) : sent[g][k].path # DNSControl

\* C11: GetRecords makes no changes.  No request of a GetRecords call
\* carries an action parameter, and a step of a GetRecords call leaves the
\* records held by the server as they were.
C11_GetRecordsChangesNothing ==
    [][\A g \in Goroutines :
          call[g].op = "GetRecords" =>
             /\ Mutations(sent'[g]) = << >>
             /\ (pc'[g] # pc[g] => zoneRecs' = zoneRecs)]_vars

\* C11's case: a GetRecords call has listed a zone that holds records,
\* while another goroutine has been changing it.
C11_Witness ==
    \E g, h \in Goroutines :
        /\ g # h
        /\ Returned(g, "GetRecords")
        /\ Listed(g)
        /\ ret[g].recs # << >>
        /\ AcceptedRecs(h) # {}

\* adjustRecordForZone, called on its own, has returned
Adjusted == unit.fn = "adjustRecordForZone" /\ unit.done

\* z is <sub>.<m> for a non-empty sub
IsSubZone(z, m) == Len(z) > Len(m) + 1 /\ HasSuffix(z, << "." >> \o m)

\* the sub of a zone <sub>.<m>
Sub(z, m) == SubSeq(z, 1, Len(z) - Len(m) - 1)

SameTypeDataTTL(a, b) ==
    /\ RR(a).Type = RR(b).Type
    /\ RR(a).Data = RR(b).Data
    /\ RR(a).TTL = RR(b).TTL

\* C12 as stated: for every record and every requested zone <sub>.<managed>,
\* adjustRecordForZone returns a record named <original name>.<sub> with
\* the original's Type, Data and TTL.
C12_NameExtendedBySub ==
    Adjusted /\ IsSubZone(unit.args.requestedZone, unit.args.managedZone) =>
       LET sub == Sub(unit.args.requestedZone, unit.args.managedZone)
       IN  /\ RR(unit.result).Name =
                 RR(unit.args.record).Name \o << "." >> \o sub
           /\ SameTypeDataTTL(unit.result, unit.args.record)

\* What adjustRecordForZone does in C12's case: the name is extended by
\* <sub> unless it already ends with .<sub>; a record whose name does is
\* returned as it is.  Type, Data and TTL are the original's in both cases.
C12_NameExtendedUnlessSuffixed ==
    Adjusted /\ IsSubZone(unit.args.requestedZone, unit.args.managedZone) =>
       LET sub  == Sub(unit.args.requestedZone, unit.args.managedZone)
           name == RR(unit.args.record).Name
       IN  /\ IF HasSuffix(name, << "." >> \o sub)
              THEN unit.result = unit.args.record
              ELSE RR(unit.result).Name = name \o << "." >> \o sub
           /\ SameTypeDataTTL(unit.result, unit.args.record)

\* A record whose name does not end with the subdomain was
\* adjusted for a requested zone two labels below the managed zone.
C12_Witness ==
    /\ Adjusted
    /\ unit.args.requestedZone = DeepZone
    /\ unit.args.managedZone = ExampleZone
    /\ RR(unit.result).Name = << "n", ".", "a", ".", "t" >>
    /\ unit.args.record = RecTXT

\* C13: adjustRecordForZone ignores a trailing dot on either zone argument.
\* Its result is its result for the zones without their trailing dot, and
\* when the zones are equal up to a trailing dot it returns the record
\* unchanged.
C13_TrailingDotIgnored ==
    Adjusted =>
       LET z == TrimSuffix(unit.args.requestedZone, << "." >>)
           m == TrimSuffix(unit.args.managedZone, << "." >>)
       IN  /\ unit.result = adjustRecordForZone(unit.args.record, z, m)
           /\ (z = m => unit.result = unit.args.record)

\* C13's case: the requested zone ends with a dot, the managed zone does
\* not, and the record's name was adjusted.
C13_Witness ==
    /\ Adjusted
    /\ HasSuffix(unit.args.requestedZone, << "." >>)
    /\ ~HasSuffix(unit.args.managedZone, << "." >>)
    /\ RR(unit.result).Name # RR(unit.args.record).Name

\* zone detection resolved the requested zone <sub>.<managed> of g's call
\* to the managed zone
Resolved(g) == Detected(g) /\ IsSubZone(call[g].zone, managedZone[g])

\* the requests of a log sent to CMD_API_DNS_CONTROL
Controls(log) == SelectSeq(log, LAMBDA r : r.path = DNSControl)

Succeeded(g) == pc[g] = "done" /\ ret[g].err = NoErr

\* C14 as stated: when the requested zone <sub>.<managed> is resolved to
\* the managed zone, AppendRecords and SetRecords send every request with
\* domain = managed zone and the record's name extended by <sub>, and on
\* success return one record per input record, its name containing <sub>.
C14_SubZoneRequests ==
    \A g \in Goroutines :
        call[g].op \in { "AppendRecords", "SetRecords" } /\ Resolved(g) =>
           LET sub  == Sub(call[g].zone, managedZone[g])
               reqs == Controls(sent[g])
           IN  /\ \A k \in 1..Len(reqs) :
                     /\ reqs[k].query["domain"] = managedZone[g]
                     /\ "action" \in DOMAIN reqs[k].query =>
                           reqs[k].query["name"] =
                              RR(call[g].records[reqs[k].rec]).Name
                                 \o << "." >> \o sub
               /\ Succeeded(g) =>
                     /\ Len(ret[g].recs) = Len(call[g].records)
                     /\ \A i \in 1..Len(ret[g].recs) :
                           Contains(RR(ret[g].recs[i]).Name, sub)

\* What AppendRecords and SetRecords do in C14's case: the name sent is
\* the input name extended by <sub> unless the input name already ends with
\* .<sub>, and then it is the input name; on success the i-th returned
\* record carries the name sent for the i-th input record, which ends with
\* .<sub>.
C14_SubZoneRequestsUnlessSuffixed ==
    \A g \in Goroutines :
        call[g].op \in { "AppendRecords", "SetRecords" } /\ Resolved(g) =>
           LET sub  == Sub(call[g].zone, managedZone[g])
               reqs == Controls(sent[g])
               name(i) ==
                   LET n == RR(call[g].records[i]).Name
                   IN  IF HasSuffix(n, << "." >> \o sub) THEN n
                       ELSE n \o << "." >> \o sub
           IN  /\ \A k \in 1..Len(reqs) :
                     /\ reqs[k].query["domain"] = managedZone[g]
                     /\ "action" \in DOMAIN reqs[k].query =>
                           reqs[k].query["name"] = name(reqs[k].rec)
               /\ Succeeded(g) =>
                     /\ Len(ret[g].recs) = Len(call[g].records)
                     /\ \A i \in 1..Len(ret[g].recs) :
                           /\ RR(ret[g].recs[i]).Name = name(i)
                           /\ HasSuffix(name(i), << "." >> \o sub)

\* A SetRecords call for a subdomain zone, with two records
\* whose names do not end with the subdomain, has succeeded.
C14_Witness ==
    \E g \in Goroutines :
        /\ call[g].op = "SetRecords"
        /\ Resolved(g)
        /\ Succeeded(g)
        /\ call[g].records = << RecA1, RecTXT >>
        /\ Len(ret[g].recs) = 2

\* every request of g's call was accepted
AllAccepted(g) == \A k \in 1..Len(sent[g]) : sent[g][k].ok

DetectionFailed(g) == pc[g] # "start" /\ ~Detected(g)

\* C16: every operation begins with zone detection (its first request, if
\* it sends any, is the one of zone detection), and when zone detection
\* returns an error the operation has returned no records and that error,
\* and has sent no request to CMD_API_DNS_CONTROL (no list, add, edit or
\* delete).
C16_DetectionFirst ==
    \A g \in Goroutines :
        /\ sent[g] # << >> => sent[g][1].path = ShowDomains
        /\ DetectionFailed(g) =>
              /\ pc[g] = "done"
              /\ ret[g].recs = << >>
              /\ ret[g].err = IF sent[g] = << >> THEN ErrURL ELSE ErrZone
              /\ Controls(sent[g]) = << >>

\* C16's case: a SetRecords call with two records whose zone detection
\* request was refused.
C16_Witness ==
    \E g \in Goroutines :
        /\ call[g].op = "SetRecords"
        /\ Len(call[g].records) = 2
        /\ DetectionFailed(g)
        /\ Len(sent[g]) = 1
        /\ ret[g].err = ErrZone

\* libdnsRecord, called on its own, has returned a record
Converted ==
    /\ unit.fn = "libdnsRecord"
    /\ unit.done
    /\ unit.result[2] = NoErr

\* the variant of libdns that matches a record type: Address, MX, SRV and
\* TXT have one of their own, the other types are carried by the generic RR
Variant(type) ==
    CASE type \in { "A", "AAAA" } -> "Address"
      [] type = "MX"  -> "MX"
      [] type = "SRV" -> "SRV"
      [] type = "TXT" -> "TXT"
      [] OTHER        -> "RR"

\* s is a decimal number, with or without a sign
IsNumber(s) == Atoi(s).ok

\* "<preference> <target>"
MXShaped(value) ==
    LET f == Split(value, " ") IN Len(f) >= 2 /\ IsNumber(f[1])

\* "<priority> <weight> <port> <target>" under a name _service._transport.name
SRVShaped(name, value) ==
    LET f == Split(value, " ")
        l == Split(name, ".")
    IN  /\ Len(f) >= 4
        /\ \A k \in 1..3 : IsNumber(f[k])
        /\ Len(l) >= 3
        /\ \A k \in 1..2 : l[k] # << >> /\ Head(l[k]) = "_"

\* C17 as stated: libdnsRecord returns the variant that matches the type of
\* the panel record.
C17_VariantMatchesType ==
    Converted => unit.result[1].kind = Variant(unit.args.r.Type)

\* C17, amended: the mail-exchange variant for an MX record whose value is
\* "<number> <target>", the service variant for an SRV record whose value is
\* "<number> <number> <number> <target>" and whose name is
\* _service._transport.name, and the generic variant, with the panel's name,
\* type and value, for every other record of a supported type: A, AAAA and
\* TXT included.
C17_TypedOnlyMXAndSRV ==
    Converted =>
       LET r   == unit.args.r
           rec == unit.result[1]
       IN  IF r.Type = "MX" /\ MXShaped(r.Value)
           THEN /\ rec.kind = "MX"
                /\ rec.Name = r.Name
                /\ HasSuffix(rec.Target, << "." >> \o unit.args.zone)
           ELSE IF r.Type = "SRV" /\ SRVShaped(r.Name, r.Value)
           THEN /\ rec.kind = "SRV"
                /\ << "_" >> \o rec.Service \o << ".", "_" >> \o rec.Transport
                      \o << "." >> \o rec.Name = r.Name
           ELSE /\ rec.kind = "RR"
                /\ rec.Name = r.Name
                /\ rec.Type = r.Type
                /\ rec.Data = r.Value

\* C17's case: an SRV record of the panel was converted into the service
\* variant.
C17_Witness ==
    /\ Converted
    /\ unit.args.r.Type = "SRV"
    /\ unit.result[1].kind = "SRV"
    /\ unit.result[1].Port = 3

\* executeRequest, called on its own, has returned
Executed == unit.fn = "executeRequest" /\ unit.done

\* s up to its first line break
RECURSIVE FirstLine(_)
FirstLine(s) ==
    IF s = << >> \/ Head(s) = "\n" THEN << >>
    ELSE << Head(s) >> \o FirstLine(Tail(s))

\* C18: executeRequest returns nil only if the body decodes as JSON, the
\* error field is empty and the status is 200; when the decoded error field
\* is non-empty it returns an error carrying the error field and the first
\* line of the result field, whatever the status.
C18_ExecuteRequestErrors ==
    Executed =>
       LET resp == unit.args.resp
       IN  /\ unit.result = NoErr =>
                 /\ resp.conn
                 /\ resp.json
                 /\ resp.error = << >>
                 /\ resp.status = StatusOK
           /\ resp.conn /\ resp.json /\ resp.error # << >> =>
                 /\ unit.result.kind = "api error"
                 /\ unit.result.error = resp.error
                 /\ unit.result.result = FirstLine(resp.result)

\* C18's case: a response with status 500, an error field and a result of
\* two lines was turned into an api error.
C18_Witness ==
    /\ Executed
    /\ unit.args.resp.status = 500
    /\ unit.args.resp.error # << >>
    /\ unit.args.resp.result = << "x", "\n", "y" >>
    /\ unit.result.kind = "api error"
    /\ unit.result.result = << "x" >>

\* a listing request: to CMD_API_DNS_CONTROL, without an action
IsListing(r) == r.path = DNSControl /\ "action" \notin DOMAIN r.query

\* the places in g's log of the listings sent for its i-th record (0: for
\* GetRecords)
ListingsFor(g, i) ==
    { k \in 1..Len(sent[g]) : IsListing(sent[g][k]) /\ sent[g][k].rec = i }

\* setZoneRecord has fetched the listing for the i-th record of g's call
ListingDue(g, i) == i < idx[g] \/ (i = idx[g] /\ pc[g] = "edit")

\* C19: nothing is cached.  A GetRecords call that got past zone detection
\* has sent one listing; SetRecords has sent one listing for each record
\* it has handled so far, every edit comes right after the listing for its
\* own record, and no step changes the Provider's configuration.
C19_NoCaching ==
    /\ [](\A g \in Goroutines :
            /\ call[g].op = "GetRecords" /\ pc[g] \in { "done", "panic" }
                  /\ Detected(g) =>
                  Cardinality(ListingsFor(g, 0)) = 1
            /\ call[g].op = "SetRecords" =>
                  /\ \A i \in 1..Len(call[g].records) :
                        Cardinality(ListingsFor(g, i)) =
                           IF ListingDue(g, i) THEN 1 ELSE 0
                  /\ \A k \in 1..Len(sent[g]) :
                        "action" \in DOMAIN sent[g][k].query =>
                           /\ k > 1
                           /\ k - 1 \in ListingsFor(g, sent[g][k].rec))
    /\ [][ServerURL' = ServerURL /\ keyCommands' = keyCommands]_vars

\* C19's case: a SetRecords call has edited two records, each after a
\* listing of its own, while another goroutine had changed the zone.
C19_Witness ==
    \E g, h \in Goroutines :
        /\ g # h
        /\ Returned(g, "SetRecords")
        /\ AcceptedRecs(g) = { 1, 2 }
        /\ Cardinality(ListingsFor(g, 2)) = 1
        /\ AcceptedRecs(h) # {}

\* the last n elements of seq
LastN(seq, n) == SubSeq(seq, Len(seq) - n + 1, Len(seq))

EditsFor(g, i) ==
    { k \in 1..Len(sent[g]) :
         /\ "action" \in DOMAIN sent[g][k].query
         /\ sent[g][k].query["action"] = << "edit" >>
         /\ sent[g][k].rec = i }

\* the <type>recs0 parameters of a query
SelectorKeys(query) ==
    DOMAIN query \cap { EditKey(t) : t \in { "A", "TXT", "MX", "SRV", "NS" } }

\* the first element of seq that satisfies Test, as a sequence of at most
\* one element
FirstMatch(seq, Test(_)) ==
    LET hits == SelectSeq(seq, Test)
    IN  IF hits = << >> THEN << >> ELSE << Head(hits) >>

\* C21: setZoneRecord sends at most one edit request for a record, and
\* none after a listing that failed, whose error is kept for the return.
\* The edit request carries the record's name, type and value; when the
\* listing holds records with the record's name and type, it carries one
\* selector, under <type>recs0, taken from the first of them in listing
\* order; when it holds none, it carries no selector.
C21_OneEditPerRecord ==
    /\ [](\A g \in Goroutines :
            call[g].op = "SetRecords" /\ pc[g] # "panic" =>
               LET unedited == { i \in 1..(idx[g] - 1) : EditsFor(g, i) = {} }
               IN  /\ \A i \in 1..Len(call[g].records) :
                         Cardinality(EditsFor(g, i)) <= 1
                   /\ \A i \in 1..(idx[g] - 1) :
                         Cardinality(EditsFor(g, i)) + Cardinality(ListingsFor(g, i))
                            \in { 1, 2 }
                   /\ Len(errors[g]) >= Cardinality(unedited)
                   /\ pc[g] = "done" /\ unedited # {} => ret[g].err # NoErr)
    /\ [][\A g \in Goroutines :
            pc[g] = "edit" /\ pc'[g] # "edit" =>
               LET rr    == RR(attempts[g][idx[g]])
                   q     == sent'[g][Len(sent'[g])].query
                   first == FirstMatch(existingRecords[g],
                                       LAMBDA e : /\ RR(e).Name = rr.Name
                                                  /\ RR(e).Type = rr.Type)
               IN  /\ Len(sent'[g]) = Len(sent[g]) + 1
                   /\ q["action"] = << "edit" >>
                   /\ q["name"] = rr.Name
                   /\ q["type"] = << rr.Type >>
                   /\ q["value"] = rr.Data
                   /\ IF first = << >>
                      THEN SelectorKeys(q) = {}
                      ELSE /\ SelectorKeys(q) = { EditKey(rr.Type) }
                           /\ q[EditKey(rr.Type)] = RR(first[1]).Data]_vars

\* C21's case: the listing holds two records with the name and type of the
\* input record, and the edit request was sent with the first one's value
\* as its selector.
C21_Witness ==
    \E g \in Goroutines :
        /\ call[g].op = "SetRecords"
        /\ EditsFor(g, 1) # {}
        /\ \E k \in EditsFor(g, 1) :
              /\ EditKey("A") \in DOMAIN sent[g][k].query
              /\ sent[g][k].query[EditKey("A")] = << "2" >>
              /\ sent[g][k].query["value"] = << "1" >>

\* the record is in the zone: a stored record has its name, type and value
Present(rec) ==
    \E j \in 1..Len(zoneRecs) :
        /\ zoneRecs[j].Name = RR(rec).Name
        /\ zoneRecs[j].Type = RR(rec).Type
        /\ zoneRecs[j].Value = RR(rec).Data

\* C22 as stated: with a server on which an edit with a selector replaces
\* the selected record and an edit without one adds a record, after
\* SetRecords returned a nil error every input record is in the zone, also
\* when two input records have the same name and type.
C22_SetRecordsAllPresent ==
    \A g \in Goroutines :
        /\ Returned(g, "SetRecords")
        /\ Detected(g)
        /\ ret[g].err = NoErr
        /\ selectorForm = "any"
        => \A i \in 1..Len(attempts[g]) : Present(attempts[g][i])

\* C24 as stated: the selector setZoneRecord sends under <type>recs0 for
\* the existing record it found is the selector deleteZoneRecord sends for
\* that record, name=<existing name>&value=<existing value>.
C24_EditSelectorAsDelete ==
    [][\A g \in Goroutines :
         pc[g] = "edit" /\ pc'[g] # "edit" =>
            LET rr    == RR(attempts[g][idx[g]])
                q     == sent'[g][Len(sent'[g])].query
                first == FirstMatch(existingRecords[g],
                                    LAMBDA e : /\ RR(e).Name = rr.Name
                                               /\ RR(e).Type = rr.Type)
            IN  first # << >> =>
                  LET del == deleteQuery(managedZone[g], first[1])
                      key == EditKey(rr.Type)
                  IN  /\ key \in DOMAIN q
                      /\ q[key] = del[key]
                      /\ q[key] = NameValue(RR(first[1]).Name,
                                            RR(first[1]).Data)]_vars

(***************************************************************************)
(* Round trips: a caller hands the records a successful AppendRecords or   *)
(* SetRecords call returned to DeleteRecords for the same zone.  The log   *)
(* of the goroutine keeps the requests of the first call.                  *)
(***************************************************************************)

\* provider.go: DeleteRecords called with the records the goroutine's
\* AppendRecords or SetRecords call returned with a nil error
DeleteReturned(g) ==
    /\ ~Crashed
    /\ pc[g] = "done"
    /\ call[g].op \in { "AppendRecords", "SetRecords" }
    /\ ret[g].err = NoErr
    /\ ret[g].recs # << >>
    /\ call' = [call EXCEPT ![g] = [op |-> "DeleteRecords", zone |-> call[g].zone,
                                    records |-> ret[g].recs]]
    /\ pc' = [pc EXCEPT ![g] = "start"]
    /\ managedZone' = [managedZone EXCEPT ![g] = << >>]
    /\ idx' = [idx EXCEPT ![g] = 1]
    /\ collected' = [collected EXCEPT ![g] = << >>]
    /\ errors' = [errors EXCEPT ![g] = << >>]
    /\ attempts' = [attempts EXCEPT ![g] = << >>]
    /\ ret' = [ret EXCEPT ![g] = [recs |-> << >>, err |-> NoErr]]
    /\ UNCHANGED << unit, selectorForm, ServerURL, keyCommands, faults, mutex,
                    zoneRecs, sent, existingRecords >>

NextRoundTrip ==
    \/ Next
    \/ \E g \in Goroutines : DeleteReturned(g)

InitRoundTrip ==
    InitWith({ 1 },
             Calls(Ops, { ExampleZone, SubZone },
                   SeqsUpTo({ RecA1, RecTXT, RecSub }, MaxRecords)),
             { GoodURL }, { AllCommands }, { << >>, << DaA >> },
             { StatusResponse }, { NoUnit }, { "exact" })

SpecRoundTrip == InitRoundTrip /\ [][NextRoundTrip]_vars

\* the places in g's log of the requests with this action sent for its
\* i-th record
RequestsFor(g, action, i) ==
    { k \in 1..Len(sent[g]) :
         /\ "action" \in DOMAIN sent[g][k].query
         /\ sent[g][k].query["action"] = << action >>
         /\ sent[g][k].rec = i }

\* C23 as stated: when the records a successful AppendRecords or SetRecords
\* call returned are passed to DeleteRecords for the same zone, the select
\* request sent for each record carries, under <type>recs0, the selector
\* name=<name>&value=<value> with the name and the value of the add or edit
\* request that was sent for that record.
C23_RoundTripSelectors ==
    \A g \in Goroutines :
        call[g].op = "DeleteRecords" =>
           \A i \in 1..Len(call[g].records) :
              \A k \in RequestsFor(g, "select", i) :
                 \A j \in RequestsFor(g, "add", i) \cup RequestsFor(g, "edit", i) :
                    LET made == sent[g][j].query
                        key  == EditKey(made["type"][1])
                    IN  /\ key \in DOMAIN sent[g][k].query
                        /\ sent[g][k].query[key] =
                              NameValue(made["name"], made["value"])

\* C25 as stated: for every record name and every requested zone
\* <sub>.<managed>, the name adjustRecordForZone returns, read relative to
\* the managed zone, is the fully-qualified name of the original name read
\* relative to the requested zone, also when the original name already ends
\* with .<sub>.
C25_SameFullName ==
    LET z == TrimSuffix(unit.args.requestedZone, << "." >>)
        m == TrimSuffix(unit.args.managedZone, << "." >>)
    IN  Adjusted /\ IsSubZone(z, m) =>
           RR(unit.result).Name \o << "." >> \o m =
              RR(unit.args.record).Name \o << "." >> \o z

\* C26 as stated: adjustRecordForZone returns the record unchanged whenever
\* the managed zone is neither the requested zone nor a parent of it on a
\* label boundary.
C26_UnrelatedZoneUnchanged ==
    LET z == TrimSuffix(unit.args.requestedZone, << "." >>)
        m == TrimSuffix(unit.args.managedZone, << "." >>)
    IN  Adjusted /\ z # m /\ ~IsSubZone(z, m) =>
           unit.result = unit.args.record

(***************************************************************************)
(* Progress.  Goroutines that share one Provider under a fair scheduler:   *)
(* a goroutine that can take a step takes it (every HTTP request returns), *)
(* and a goroutine blocked in p.mutex.Lock() gets the mutex when it is     *)
(* released again and again (sync.Mutex hands it to a starving waiter).    *)
(***************************************************************************)
Fairness ==
    \A g \in 1..NumGoroutines :
        /\ WF_vars(DetectZone(g))
        /\ WF_vars(GetRecords(g))
        /\ SF_vars(appendZoneRecordLock(g))
        /\ WF_vars(appendZoneRecord(g))
        /\ SF_vars(setZoneRecordLock(g))
        /\ WF_vars(setZoneRecordList(g))
        /\ WF_vars(setZoneRecord(g))
        /\ SF_vars(deleteZoneRecordLock(g))
        /\ WF_vars(deleteZoneRecord(g))
        /\ WF_vars(LoopExit(g))

InitLive ==
    InitWith(1..NumGoroutines,
             Calls(Ops, { ExampleZone }, { << RecA1 >> }),
             { GoodURL }, { AllCommands }, { << DaA >>, << DaA, DaURI >> },
             { StatusResponse }, { NoUnit }, { "exact" })

SpecLive == InitLive /\ [][Next]_vars /\ Fairness

\* C27 as stated: every mutating call that takes the lock releases it on
\* every exit path and the listing inside setZoneRecord takes no lock, so
\* with HTTP requests that return and fair scheduling each goroutine
\* waiting for the lock in AppendRecords, SetRecords or DeleteRecords gets
\* it, and its call returns.
C27_WaitingCallsReturn ==
    \A g \in 1..NumGoroutines :
        Waiting(g) ~> (pc[g] = "done")

=============================================================================
